---- MODULE Spec2Model ----
(***************************************************************************)
(* Model of mookme's StepExecutor (packages/mookme/src/commands/publish.ts *)
(* lines 95-216): the skip gate computed by the constructor, run(), the    *)
(* stdout / stderr 'data' listeners and the 'exit' listener it registers   *)
(* on the child process, and the status events it emits on the bus.        *)
(*                                                                         *)
(* Strings are sequences of tokens: a chunk of subprocess output is one    *)
(* token, and `\n${chunk}` is the two-token sequence <<"\n", chunk>>, so   *)
(* that += is sequence concatenation and "contains" is a real question.    *)
(* Paths are sequences of path segments.                                   *)
(***************************************************************************)
EXTENDS Integers, Sequences, FiniteSets, TLC

(***************************************************************************)
(* Bounds of the model.                                                    *)
(***************************************************************************)
\* run() calls made in one behaviour, over all executors
MaxCalls == 2
\* chunks one subprocess writes, over both of its output streams
MaxChunks == 2
\* characters of options.hookArguments
MaxArgLen == 3
\* calls of writeGitIgnoreFiles
MaxIgnoreCalls == 2

(***************************************************************************)
(* Inputs.                                                                 *)
(***************************************************************************)
\* The executors the hook runner creates, one per (package, step) pair.
Executors == {"e1", "e2"}

\* options.rootDir
RootDir == <<"repo">>

\* options.packageName
PackageName(e) == IF e = "e1" THEN "pkgA" ELSE "pkgB"

\* step.name
StepName(e) == IF e = "e1" THEN "lint" ELSE "test"

\* options.packagePath: absolute, the package directory under rootDir
PackagePath(e) == RootDir \o <<PackageName(e)>>

\* Paths relative to rootDir that git may report as staged.
Files == {<<"pkgA", "main.go">>, <<"pkgA", "util.ts">>, <<"pkgB", "main.go">>}

\* The contents the stagedFiles array may have: nothing staged; one file that
\* "*.go" selects; a file of pkgA that "*.go" does not select beside a file of
\* pkgB that it does; a file that it selects in each package.
StagedLists ==
    {<<>>,
     << <<"pkgA", "main.go">> >>,
     << <<"pkgA", "util.ts">>, <<"pkgB", "main.go">> >>,
     << <<"pkgB", "main.go">>, <<"pkgA", "main.go">> >>}

\* step.onlyOn when the configuration does not set it
Undefined == "undefined"

\* Values of step.onlyOn: unset, the empty string, a glob, an unbalanced bracket.
OnlyOnValues == {Undefined, "", "*.go", "["}

\* Text a subprocess writes to its standard error / standard output.
ErrChunks == {"boom", "bang"}
OutChunks == {"built", "done"}

\* Exit code null: the subprocess was terminated by a signal.
NullCode == -1

\* What the 'exit' event carries: 0, a non-zero code, null.
ExitCodes == {0, 1, NullCode}

\* ExecutionStatus
RUNNING == "RUNNING"
SKIPPED == "SKIPPED"
SUCCESS == "SUCCESS"
FAILURE == "FAILURE"
Terminal == {SKIPPED, SUCCESS, FAILURE}

(***************************************************************************)
(* State.                                                                  *)
(***************************************************************************)
VARIABLES
    \* the array the hook runner hands to every executor as options.stagedFiles
    stagedFiles,
    \* per executor: the outcome of `new StepExecutor(step, options)` and the
    \* fields of the instance
    inst,
    \* the run() calls made so far, in call order: promise, subprocess, buffers
    calls,
    \* the events published on the bus, in publish order
    bus,
    \* computeExecutedCommand(): its inputs and the command it returned
    built,
    \* utils/git.ts: the files and the process its functions act on
    repo

\* the variables of the StepExecutor
execVars == <<stagedFiles, inst, calls, bus>>

vars == <<stagedFiles, inst, calls, bus, built, repo>>

(***************************************************************************)
(* Pattern matcher (utils/run-helpers, getMatchedFiles).                   *)
(***************************************************************************)
\* Whether the matcher accepts the pattern as a glob.
ValidGlob(pattern) == pattern # "["

\* Whether the glob, relative to the package directory, matches the path
\* (given relative to the package directory).
GlobMatches(pattern, rel) ==
    /\ pattern = "*.go"
    /\ rel \in {<<"main.go">>}

IsPrefix(p, s) == Len(p) <= Len(s) /\ SubSeq(s, 1, Len(p)) = p

\* The staged files that lie under the package directory and satisfy the glob,
\* in the order of stagedFiles.
getMatchedFiles(pattern, packagePath, files, rootDir) ==
    LET abs(f) == rootDir \o f
        hit(f) == /\ IsPrefix(packagePath, abs(f))
                  /\ GlobMatches(pattern, SubSeq(abs(f), Len(packagePath) + 1, Len(abs(f))))
    IN  SelectSeq(files, hit)

(***************************************************************************)
(* StepExecutor.                                                           *)
(***************************************************************************)
\* JavaScript truthiness of step.onlyOn
Truthy(onlyOn) == onlyOn \notin {Undefined, ""}

\* isSkipped() with the length test inverted (`!== 0`).
isSkippedInverted(onlyOn, packagePath, files, rootDir) ==
    IF Truthy(onlyOn)
    THEN IF ~ValidGlob(onlyOn)
         THEN [threw |-> TRUE, value |-> FALSE]
         ELSE [threw |-> FALSE,
               value |-> Len(getMatchedFiles(onlyOn, packagePath, files, rootDir)) # 0]
    ELSE [threw |-> FALSE, value |-> FALSE]

\* isSkipped() without the `if (this.step.onlyOn)` guard.
isSkippedUnguarded(onlyOn, packagePath, files, rootDir) ==
    IF ~ValidGlob(onlyOn)
    THEN [threw |-> TRUE, value |-> FALSE]
    ELSE [threw |-> FALSE,
          value |-> Len(getMatchedFiles(onlyOn, packagePath, files, rootDir)) = 0]

\* isSkipped() whose catch block returns true instead of throwing.
isSkippedCatchSkips(onlyOn, packagePath, files, rootDir) ==
    IF Truthy(onlyOn)
    THEN IF ~ValidGlob(onlyOn)
         THEN [threw |-> FALSE, value |-> TRUE]
         ELSE [threw |-> FALSE,
               value |-> Len(getMatchedFiles(onlyOn, packagePath, files, rootDir)) = 0]
    ELSE [threw |-> FALSE, value |-> FALSE]

\* isSkipped(): [threw |-> the call raised "Invalid `onlyOn` pattern",
\*               value |-> what it returned otherwise]
isSkipped(onlyOn, packagePath, files, rootDir) ==
    IF Truthy(onlyOn)
    THEN IF ~ValidGlob(onlyOn)
         THEN [threw |-> TRUE, value |-> FALSE]
         ELSE IF Len(getMatchedFiles(onlyOn, packagePath, files, rootDir)) = 0
              THEN [threw |-> FALSE, value |-> TRUE]
              ELSE [threw |-> FALSE, value |-> FALSE]
    ELSE [threw |-> FALSE, value |-> FALSE]

\* No `new StepExecutor` has been evaluated for the executor yet.
NoInstance == [state |-> "none", onlyOn |-> Undefined, skipped |-> FALSE, noMatch |-> FALSE]

\* Whether no staged file lies in the executor's package directory with a name
\* the executor's onlyOn glob selects (stated on the paths, not by the matcher).
NoStagedMatch(e, onlyOn, files) ==
    \A i \in 1..Len(files) :
        ~(/\ files[i][1] = PackageName(e)
          /\ onlyOn = "*.go"
          /\ files[i][2] = "main.go")

\* new StepExecutor(step, options): state "ok" and the fields of the instance, or
\* state "threw" when the constructor raised (the caller then holds no instance;
\* onlyOn is the step's). noMatch records NoStagedMatch at construction time.
Constructed(e, onlyOn, files) ==
    LET r == isSkipped(onlyOn, PackagePath(e), files, RootDir)
    IN  IF r.threw
        THEN [state |-> "threw", onlyOn |-> onlyOn, skipped |-> FALSE, noMatch |-> FALSE]
        ELSE [state |-> "ok", onlyOn |-> onlyOn, skipped |-> r.value,
              noMatch |-> NoStagedMatch(e, onlyOn, files)]

(***************************************************************************)
(* Status bus (../events, bus): publish / subscribe.                       *)
(***************************************************************************)
\* The handlers subscribed to StepStatusChanged, in subscription order.
Handlers == <<"faulty", "reporter">>

\* Whether the handler raises an error when it receives an event.
HandlerRaises(h) == h = "faulty"

\* An emitter that stops at the first handler that raises and lets the error
\* reach the publisher.
BusEmitPropagating(ev) ==
    LET bad == {i \in 1..Len(Handlers) : HandlerRaises(Handlers[i])}
        upto == IF bad = {} THEN Len(Handlers)
                ELSE CHOOSE i \in bad : \A j \in bad : i <= j
    IN  [to |-> {Handlers[i] : i \in 1..upto}, raised |-> bad # {}]

\* bus.emit(StepStatusChanged, ev): the handlers the event is delivered to, and
\* whether an error reaches the publisher. Handlers are isolated: each one
\* receives the event and no error propagates.
BusEmit(ev) ==
    [to |-> {Handlers[i] : i \in 1..Len(Handlers)}, raised |-> FALSE]

\* the payload emitStepStatus() builds
StatusEvent(e, status) ==
    [packageName |-> PackageName(e), stepName |-> StepName(e), status |-> status]

\* Whether emitStepStatus(status) throws: it has no try / catch around bus.emit.
EmitRaises(e, status) == BusEmit(StatusEvent(e, status)).raised

\* emitStepStatus() publishing a payload that names no particular executor.
emitStepStatusAnonymous(b, e, c, status) ==
    Append(b, [packageName |-> PackageName("e1"), stepName |-> StepName("e1"),
               status |-> status, call |-> c, to |-> BusEmit(StatusEvent(e, status)).to])

\* emitStepStatus(status): the bus after the event is published. `call` is the
\* index of the run() call that published it and `to` the handlers that
\* received it (bookkeeping, not in the payload).
emitStepStatus(b, e, c, status) ==
    Append(b, [packageName |-> PackageName(e), stepName |-> StepName(e),
               status |-> status, call |-> c, to |-> BusEmit(StatusEvent(e, status)).to])

\* run() deciding by a fresh isSkipped() instead of the stored flag.
RunSkipsRecomputed(e) ==
    isSkipped(inst[e].onlyOn, PackagePath(e), stagedFiles, RootDir).value

\* `if (this.skipped)` in run()
RunSkips(e) == inst[e].skipped

\* the 'exit' listener testing `code` for truthiness the wrong way round
ExitStatusSwapped(code) == IF code # 0 THEN SUCCESS ELSE FAILURE

\* the 'exit' listener testing `!code` instead of `code === 0`
ExitStatusFalsy(code) == IF code \in {0, NullCode} THEN SUCCESS ELSE FAILURE

\* the status the 'exit' listener publishes
ExitStatus(code) == IF code = 0 THEN SUCCESS ELSE FAILURE

\* the 'exit' listener with the `else` lost: Failure follows Success
ExitEmitNoElse(b, e, c, code) ==
    IF code = 0
    THEN emitStepStatus(emitStepStatus(b, e, c, SUCCESS), e, c, FAILURE)
    ELSE emitStepStatus(b, e, c, FAILURE)

\* the bus after the 'exit' listener published its status
ExitEmit(b, e, c, code) == emitStepStatus(b, e, c, ExitStatus(code))

\* the 'exit' listener rejecting the promise on a failed step
ExitOutcomeRejects(code) == IF code = 0 THEN "null" ELSE "rejected"

\* the 'exit' listener without the resolve() of its else branch
ExitOutcomeUnresolved(code) == IF code = 0 THEN "null" ELSE "pending"

\* what the 'exit' listener resolves the promise with: null, or {step, msg}
ExitOutcome(code) == IF code = 0 THEN "null" ELSE "failure"

\* chalk.bold('\nstdout :\n')
StdoutMarker == <<"\nstdout :\n">>

\* new Error(error + chalk.bold('\nstdout :\n') + out)
ErrorMessage(error, out) == error \o StdoutMarker \o out

\* a 'data' listener putting the chunk in front of the buffer
AppendChunkInFront(buf, chunk) == <<"\n", chunk>> \o buf

\* `\n${chunk}` appended to a buffer
AppendChunk(buf, chunk) == buf \o <<"\n", chunk>>

\* The promise: pending, resolved with "null" or with "failure" (msg set), or
\* "rejected"; "threw" when run() raised instead of returning a promise.
Pending == "pending"

NewCall(e, phase, outcome, wouldSkip) ==
    [exec |-> e, phase |-> phase, outcome |-> outcome, code |-> NullCode,
     msg |-> <<>>, errPipe |-> <<>>, outPipe |-> <<>>, error |-> <<>>,
     out |-> <<>>, wroteErr |-> <<>>, wroteOut |-> <<>>, wouldSkip |-> wouldSkip]

\* Whether run() has been called on the executor.
HasRun(e) == \E c \in 1..Len(calls) : calls[c].exec = e

\* computeExecutedCommand() has not been called / no function of utils/git.ts
\* is in play.
Idle == [state |-> "idle"]

Init ==
    /\ stagedFiles \in StagedLists
    /\ inst = [e \in Executors |-> NoInstance]
    /\ calls = <<>>
    /\ bus = <<>>
    /\ built = Idle
    /\ repo = Idle

\* new StepExecutor(step, options) with options.stagedFiles the runner's array
Construct(e, onlyOn) ==
    /\ inst[e].state = "none"
    /\ inst' = [inst EXCEPT ![e] = Constructed(e, onlyOn, stagedFiles)]
    /\ UNCHANGED <<stagedFiles, calls, bus, built, repo>>

\* The caller changes the array it passed as options.stagedFiles.
MutateStagedFiles(files) ==
    /\ files # stagedFiles
    /\ stagedFiles' = files
    /\ UNCHANGED <<inst, calls, bus, built, repo>>

\* run() on a skipped executor: Running, Skipped, Promise.resolve(null). An error
\* out of emitStepStatus leaves run() at once (phase and outcome "threw").
RunSkipped(e) ==
    LET c == Len(calls) + 1
    IN  /\ inst[e].state = "ok"
        /\ Len(calls) < MaxCalls
        /\ RunSkips(e)
        /\ bus' = IF EmitRaises(e, RUNNING)
                  THEN emitStepStatus(bus, e, c, RUNNING)
                  ELSE emitStepStatus(emitStepStatus(bus, e, c, RUNNING), e, c, SKIPPED)
        /\ calls' = Append(calls, NewCall(e,
                        IF EmitRaises(e, RUNNING) THEN "threw" ELSE "skipped",
                        IF EmitRaises(e, RUNNING) \/ EmitRaises(e, SKIPPED) THEN "threw" ELSE "null",
                        isSkipped(inst[e].onlyOn, PackagePath(e), stagedFiles, RootDir).value))
        /\ UNCHANGED <<stagedFiles, inst, built, repo>>

\* run() on an executor that is not skipped: Running, then exec(command); the
\* child either starts or fails to spawn (its 'error' event comes on a later tick).
RunLaunch(e, spawned) ==
    LET c == Len(calls) + 1
    IN  /\ inst[e].state = "ok"
        /\ Len(calls) < MaxCalls
        /\ ~RunSkips(e)
        /\ bus' = emitStepStatus(bus, e, c, RUNNING)
        /\ calls' = Append(calls, NewCall(e,
                        IF EmitRaises(e, RUNNING) THEN "threw"
                        ELSE IF spawned THEN "running" ELSE "spawnfail",
                        IF EmitRaises(e, RUNNING) THEN "threw" ELSE Pending,
                        isSkipped(inst[e].onlyOn, PackagePath(e), stagedFiles, RootDir).value))
        /\ UNCHANGED <<stagedFiles, inst, built, repo>>

\* The text of the next chunk the subprocess of call c writes to its standard
\* error / standard output: consecutive chunks of a stream differ, and so do the
\* chunks two subprocesses write at the same position.
ErrText(c) == IF (c + Len(calls[c].wroteErr)) % 2 = 0 THEN "boom" ELSE "bang"
OutText(c) == IF (c + Len(calls[c].wroteOut)) % 2 = 0 THEN "built" ELSE "done"

\* The subprocess writes a chunk to its standard error.
CpWriteStderr(c, chunk) ==
    /\ calls[c].phase = "running"
    /\ Len(calls[c].wroteErr) + Len(calls[c].wroteOut) < MaxChunks
    /\ calls' = [calls EXCEPT ![c].errPipe = Append(@, chunk),
                              ![c].wroteErr = Append(@, chunk)]
    /\ UNCHANGED <<stagedFiles, inst, bus, built, repo>>

\* The subprocess writes a chunk to its standard output.
CpWriteStdout(c, chunk) ==
    /\ calls[c].phase = "running"
    /\ Len(calls[c].wroteErr) + Len(calls[c].wroteOut) < MaxChunks
    /\ calls' = [calls EXCEPT ![c].outPipe = Append(@, chunk),
                              ![c].wroteOut = Append(@, chunk)]
    /\ UNCHANGED <<stagedFiles, inst, bus, built, repo>>

\* cp.stdout 'data' listener
OnStdoutData(c) ==
    /\ calls[c].outPipe # <<>>
    /\ calls' = [calls EXCEPT ![c].out = AppendChunk(@, Head(calls[c].outPipe)),
                              ![c].outPipe = Tail(@)]
    /\ UNCHANGED <<stagedFiles, inst, bus, built, repo>>

\* cp.stderr 'data' listener
OnStderrData(c) ==
    /\ calls[c].errPipe # <<>>
    /\ calls' = [calls EXCEPT ![c].error = AppendChunk(@, Head(calls[c].errPipe)),
                              ![c].errPipe = Tail(@)]
    /\ UNCHANGED <<stagedFiles, inst, bus, built, repo>>

\* cp 'exit' listener. The event is emitted when the process ends, which may be
\* before the data still in its pipes has been delivered. An error out of
\* emitStepStatus leaves the listener before resolve().
OnExit(c, code) ==
    /\ calls[c].phase = "running"
    /\ bus' = ExitEmit(bus, calls[c].exec, c, code)
    /\ calls' = [calls EXCEPT
            ![c].phase = "done",
            ![c].code = code,
            ![c].outcome = IF EmitRaises(calls[c].exec, ExitStatus(code))
                           THEN Pending ELSE ExitOutcome(code),
            ![c].msg = IF code = 0 \/ EmitRaises(calls[c].exec, ExitStatus(code))
                       THEN <<>> ELSE ErrorMessage(calls[c].error, calls[c].out)]
    /\ UNCHANGED <<stagedFiles, inst, built, repo>>

\* The child could not be spawned: it emits 'error' and no 'exit'. run()
\* registers no 'error' listener, so nothing of the executor runs.
OnSpawnError(c) ==
    /\ calls[c].phase = "spawnfail"
    /\ calls' = [calls EXCEPT ![c].phase = "errored"]
    /\ UNCHANGED <<stagedFiles, inst, bus, built, repo>>

Next ==
    \/ \E e \in Executors, onlyOn \in OnlyOnValues : Construct(e, onlyOn)
    \/ \E files \in StagedLists : MutateStagedFiles(files)
    \/ \E e \in Executors : RunSkipped(e)
    \/ \E e \in Executors, spawned \in BOOLEAN : RunLaunch(e, spawned)
    \/ \E c \in 1..Len(calls) : CpWriteStderr(c, ErrText(c))
    \/ \E c \in 1..Len(calls) : CpWriteStdout(c, OutText(c))
    \/ \E c \in 1..Len(calls) : OnStdoutData(c)
    \/ \E c \in 1..Len(calls) : OnStderrData(c)
    \/ \E c \in 1..Len(calls), code \in ExitCodes : OnExit(c, code)
    \/ \E c \in 1..Len(calls) : OnSpawnError(c)

Spec == Init /\ [][Next]_vars

(***************************************************************************)
(* The executor's life cycle: construction, the skip gate, run() and the   *)
(* end of the subprocess, for subprocesses that write no output.           *)
(***************************************************************************)
NextLifecycle ==
    \/ \E e \in Executors, onlyOn \in OnlyOnValues : Construct(e, onlyOn)
    \/ \E files \in StagedLists : MutateStagedFiles(files)
    \/ \E e \in Executors : RunSkipped(e)
    \/ \E e \in Executors, spawned \in BOOLEAN : RunLaunch(e, spawned)
    \/ \E c \in 1..Len(calls), code \in ExitCodes : OnExit(c, code)
    \/ \E c \in 1..Len(calls) : OnSpawnError(c)

SpecLifecycle == Init /\ [][NextLifecycle]_vars

(***************************************************************************)
(* The output of the subprocesses: executors constructed for steps with no *)
(* onlyOn, their subprocesses writing to both streams.                     *)
(***************************************************************************)
InitOutput ==
    /\ stagedFiles \in StagedLists
    /\ inst = [e \in Executors |-> Constructed(e, Undefined, stagedFiles)]
    /\ calls = <<>>
    /\ bus = <<>>
    /\ built = Idle
    /\ repo = Idle

\* The hook runner calls run() once on each executor it created.
NextOutput ==
    \/ \E e \in Executors, spawned \in BOOLEAN : ~HasRun(e) /\ RunLaunch(e, spawned)
    \/ \E c \in 1..Len(calls) : CpWriteStderr(c, ErrText(c))
    \/ \E c \in 1..Len(calls) : CpWriteStdout(c, OutText(c))
    \/ \E c \in 1..Len(calls) : OnStdoutData(c)
    \/ \E c \in 1..Len(calls) : OnStderrData(c)
    \/ \E c \in 1..Len(calls), code \in ExitCodes : OnExit(c, code)
    \/ \E c \in 1..Len(calls) : OnSpawnError(c)

SpecOutput == InitOutput /\ [][NextOutput]_vars

(***************************************************************************)
(* The end of the subprocesses: executors constructed as for SpecOutput,   *)
(* each run once, every subprocess that started eventually exits.          *)
(***************************************************************************)
NextExit ==
    \/ \E e \in Executors, spawned \in BOOLEAN : ~HasRun(e) /\ RunLaunch(e, spawned)
    \/ \E c \in 1..Len(calls), code \in ExitCodes : OnExit(c, code)
    \/ \E c \in 1..Len(calls) : OnSpawnError(c)

\* The 'exit' event of the c-th subprocess.
ExitOf(c) == c \in 1..Len(calls) /\ \E code \in ExitCodes : OnExit(c, code)

SpecExitFair ==
    /\ InitOutput
    /\ [][NextExit]_vars
    /\ \A c \in 1..Cardinality(Executors) : WF_vars(ExitOf(c))

(***************************************************************************)
(* computeExecutedCommand().  A string is a sequence of tokens: single     *)
(* characters of hookArguments, the placeholder "{args}", and the fixed    *)
(* pieces of the command text.                                             *)
(***************************************************************************)
Placeholder == "{args}"

\* step.command
Commands ==
    { <<"lint">>,
      <<"lint ", Placeholder>>,
      <<"lint ", Placeholder, " ", Placeholder>>,
      <<Placeholder, " | lint">> }

\* options.type
PackageTypes == {Undefined, "python", "js"}

\* options.venvActivate: unset, the empty string, a path
VenvValues == {Undefined, "", ".venv/bin/activate"}

\* characters of options.hookArguments
ArgChars == {"a", " ", "\t", "$", "&"}

RECURSIVE SeqsUpTo(_, _)
SeqsUpTo(S, n) ==
    IF n = 0 THEN {<<>>}
    ELSE LET shorter == SeqsUpTo(S, n - 1)
         IN  shorter \cup {Append(t, x) : t \in shorter, x \in S}

HookArguments == SeqsUpTo(ArgChars, MaxArgLen)

\* the wrapping test without the comparison of the type
WrapsVenvAnyType(type, venvActivate) == Truthy(venvActivate)

\* type === 'python' && venvActivate
WrapsVenv(type, venvActivate) == type = "python" /\ Truthy(venvActivate)

\* `source ${venvActivate} && ${command} && deactivate`, or command
WithVenv(type, venvActivate, command) ==
    IF WrapsVenv(type, venvActivate)
    THEN <<"source ", venvActivate, " && ">> \o command \o <<" && deactivate">>
    ELSE command

\* String.prototype.split(separator) for a one-character separator
RECURSIVE Split(_, _)
Split(str, sep) ==
    IF \A i \in 1..Len(str) : str[i] # sep
    THEN <<str>>
    ELSE LET i == CHOOSE k \in 1..Len(str) :
                      str[k] = sep /\ \A j \in 1..(k - 1) : str[j] # sep
         IN  <<SubSeq(str, 1, i - 1)>> \o Split(SubSeq(str, i + 1, Len(str)), sep)

\* Array.prototype.join(separator)
RECURSIVE Join(_, _)
Join(parts, sep) ==
    IF parts = <<>> THEN <<>>
    ELSE IF Len(parts) = 1 THEN parts[1]
    ELSE parts[1] \o <<sep>> \o Join(Tail(parts), sep)

\* hookArguments.split(' ').filter((arg) => arg !== '')
ArgTokens(hookArguments) ==
    SelectSeq(Split(hookArguments, " "), LAMBDA arg : arg # <<>>)

\* `"${args.join(' ')}"`
QuotedArgs(hookArguments) ==
    <<"\"">> \o Join(ArgTokens(hookArguments), " ") \o <<"\"">>

\* The replacement string as String.prototype.replace expands it: "$$" is
\* a dollar sign and "$&" the matched text; every other character is itself.
RECURSIVE ExpandReplacement(_, _)
ExpandReplacement(replacement, matched) ==
    IF replacement = <<>> THEN <<>>
    ELSE IF Len(replacement) >= 2 /\ replacement[1] = "$" /\ replacement[2] = "$"
    THEN <<"$">> \o ExpandReplacement(SubSeq(replacement, 3, Len(replacement)), matched)
    ELSE IF Len(replacement) >= 2 /\ replacement[1] = "$" /\ replacement[2] = "&"
    THEN matched \o ExpandReplacement(SubSeq(replacement, 3, Len(replacement)), matched)
    ELSE <<Head(replacement)>> \o ExpandReplacement(Tail(replacement), matched)

\* String.prototype.replace(pattern, replacement) with a string pattern:
\* the first occurrence only
Replace(str, pattern, replacement) ==
    IF \A i \in 1..Len(str) : str[i] # pattern
    THEN str
    ELSE LET i == CHOOSE k \in 1..Len(str) :
                      str[k] = pattern /\ \A j \in 1..(k - 1) : str[j] # pattern
         IN  SubSeq(str, 1, i - 1)
                 \o ExpandReplacement(replacement, <<pattern>>)
                 \o SubSeq(str, i + 1, Len(str))

computeExecutedCommand(type, venvActivate, command, hookArguments) ==
    Replace(WithVenv(type, venvActivate, command), Placeholder,
            QuotedArgs(hookArguments))

\* The options and the step of one executor, before and after the call.
CommandInput(type, venvActivate, command, hookArguments) ==
    [state |-> "input", type |-> type, venvActivate |-> venvActivate,
     command |-> command, hookArguments |-> hookArguments, execute |-> <<>>]

InitCommand ==
    /\ stagedFiles = <<>>
    /\ inst = [e \in Executors |-> NoInstance]
    /\ calls = <<>>
    /\ bus = <<>>
    /\ repo = Idle
    /\ built \in {CommandInput(t, v, c, a) :
                    t \in PackageTypes, v \in VenvValues,
                    c \in Commands, a \in HookArguments}

ComputeExecutedCommand ==
    /\ built.state = "input"
    /\ built' = [built EXCEPT
            !.state = "built",
            !.execute = computeExecutedCommand(built.type, built.venvActivate,
                                               built.command, built.hookArguments)]
    /\ UNCHANGED <<execVars, repo>>

SpecCommand == InitCommand /\ [][ComputeExecutedCommand]_vars

(***************************************************************************)
(* utils/git.ts.  The content of a file is a sequence of tokens: "\n" and  *)
(* the pieces of text between newlines.                                    *)
(***************************************************************************)
Absent == "absent"

\* String.prototype.includes
Includes(content, text) == \E i \in 1..Len(content) : content[i] = text

\* No variable of the executors changes while git.ts runs.
InitNoExecutor ==
    /\ stagedFiles = <<>>
    /\ inst = [e \in Executors |-> NoInstance]
    /\ calls = <<>>
    /\ bus = <<>>
    /\ built = Idle

(***************************************************************************)
(* writeGitIgnoreFiles(packagesPath)                                       *)
(***************************************************************************)
IgnoreLine == ".hooks/*.local.json"

Packages == {"packages/api", "packages/web"}

PackagesPaths ==
    { <<"packages/api">>, <<"packages/web">>, <<"packages/api", "packages/web">> }

\* ${pkgPath}/.gitignore before the first call
GitIgnoreContents ==
    { Absent,
      <<>>,
      <<"node_modules", "\n">>,
      <<IgnoreLine, "\n">>,
      <<"node_modules", "\n", IgnoreLine>> }

\* the test of line 90 as `!gitignoreContent.includes(line)`
GitIgnoreAppendsWhenMissing(content) == ~Includes(content, IgnoreLine)

\* gitignoreContent.includes(line)
GitIgnoreAppends(content) == Includes(content, IgnoreLine)

\* the body of the loop for one package
WriteGitIgnoreFile(content) ==
    IF content = Absent
    THEN <<IgnoreLine, "\n">>
    ELSE IF GitIgnoreAppends(content)
         THEN content \o <<"\n", IgnoreLine, "\n">>
         ELSE content

\* the .gitignore files after the loop over packagesPath
RECURSIVE WriteGitIgnoreLoop(_, _)
WriteGitIgnoreLoop(files, packagesPath) ==
    IF packagesPath = <<>> THEN files
    ELSE LET pkgPath == Head(packagesPath)
         IN  WriteGitIgnoreLoop(
                 [files EXCEPT ![pkgPath] = WriteGitIgnoreFile(files[pkgPath])],
                 Tail(packagesPath))

InitGitIgnore ==
    /\ InitNoExecutor
    /\ repo \in [state : {"gitignore"},
                 files : [Packages -> GitIgnoreContents],
                 before : {<<>>},
                 packagesPath : {<<>>},
                 ncalls : {0}]

WriteGitIgnoreFiles(packagesPath) ==
    /\ repo.state = "gitignore"
    /\ repo.ncalls < MaxIgnoreCalls
    /\ repo' = [repo EXCEPT
            !.files = WriteGitIgnoreLoop(repo.files, packagesPath),
            !.before = repo.files,
            !.packagesPath = packagesPath,
            !.ncalls = repo.ncalls + 1]
    /\ UNCHANGED <<execVars, built>>

NextGitIgnore == \E packagesPath \in PackagesPaths : WriteGitIgnoreFiles(packagesPath)

SpecGitIgnore == InitGitIgnore /\ [][NextGitIgnore]_vars

(***************************************************************************)
(* writeGitHooksFiles(hookTypes, rootDir)                                  *)
(***************************************************************************)
HookTypes == {"pre-commit", "commit-msg"}

HookTypeLists ==
    { <<"pre-commit">>, <<"commit-msg">>, <<"pre-commit", "commit-msg">> }

\* `./node_modules/@escape.tech/mookme/bin/index.js run --type ${type} --args "$1"`
mookmeLegacyCmd(type) ==
    IF type = "pre-commit"
    THEN "./node_modules/@escape.tech/mookme/bin/index.js run --type pre-commit --args \"$1\""
    ELSE "./node_modules/@escape.tech/mookme/bin/index.js run --type commit-msg --args \"$1\""

\* `npx mookme run --type ${type} --args "$1"`
mookmeCmd(type) ==
    IF type = "pre-commit"
    THEN "npx mookme run --type pre-commit --args \"$1\""
    ELSE "npx mookme run --type commit-msg --args \"$1\""

\* ${gitFolderPath}/hooks/${type} before the first call: absent, unrelated
\* content, the legacy invocation once and twice, the current invocation,
\* both invocations.
HookContents(type) ==
    { Absent,
      <<"#!/bin/bash", "\n", "make lint">>,
      <<"#!/bin/bash", "\n", mookmeLegacyCmd(type)>>,
      <<"#!/bin/bash", "\n", mookmeLegacyCmd(type), "\n", "make lint", "\n",
        mookmeLegacyCmd(type)>>,
      <<"#!/bin/bash", "\n", mookmeCmd(type)>>,
      <<"#!/bin/bash", "\n", mookmeCmd(type), "\n", mookmeLegacyCmd(type)>> }

\* the body of forEach for one hook type
WriteGitHookFile(hook, type) ==
    IF hook # Absent
    THEN IF Includes(hook, mookmeLegacyCmd(type))
         THEN Replace(hook, mookmeLegacyCmd(type), <<mookmeCmd(type)>>)
         ELSE IF ~Includes(hook, mookmeCmd(type))
              THEN hook \o <<"\n", mookmeCmd(type)>>
              ELSE hook
    ELSE <<"#!/bin/bash", "\n", mookmeCmd(type)>>

\* the hook files after hookTypes.forEach
RECURSIVE WriteGitHooksLoop(_, _)
WriteGitHooksLoop(files, hookTypes) ==
    IF hookTypes = <<>> THEN files
    ELSE LET type == Head(hookTypes)
         IN  WriteGitHooksLoop(
                 [files EXCEPT ![type] = WriteGitHookFile(files[type], type)],
                 Tail(hookTypes))

\* .git/hooks is missing and holds no file, or it exists with any files.
InitHooks ==
    /\ InitNoExecutor
    /\ \E hooksDir \in BOOLEAN, pc \in HookContents("pre-commit"),
          cm \in HookContents("commit-msg") :
        /\ ~hooksDir => (pc = Absent /\ cm = Absent)
        /\ repo = [state |-> "hooks", hooksDir |-> hooksDir,
                   files |-> [type \in HookTypes |->
                                IF type = "pre-commit" THEN pc ELSE cm],
                   hookTypes |-> <<>>]

WriteGitHooksFiles(hookTypes) ==
    /\ repo.state = "hooks"
    /\ repo' = [repo EXCEPT
            !.hooksDir = TRUE,
            !.files = WriteGitHooksLoop(repo.files, hookTypes),
            !.hookTypes = hookTypes]
    /\ UNCHANGED <<execVars, built>>

NextHooks == \E hookTypes \in HookTypeLists : WriteGitHooksFiles(hookTypes)

SpecHooks == InitHooks /\ [][NextHooks]_vars

(***************************************************************************)
(* detectAndProcessModifiedFiles(initialNotStagedFiles, behavior)          *)
(***************************************************************************)
\* Files of the work tree, in the order `git diff --name-only` lists them.
WorkFiles == <<"a.ts", "b.ts", "c.ts">>

WorkFileSets == SUBSET {WorkFiles[i] : i \in 1..Len(WorkFiles)}

ADD_AND_COMMIT == "addAndCommit"
EXIT == "exit"
Behaviors == {ADD_AND_COMMIT, EXIT}

\* What `echo $(git diff --name-only)` prints: the names separated by one
\* space, then a newline.
EchoGitDiff(unstaged) ==
    LET names == SelectSeq(WorkFiles, LAMBDA f : f \in unstaged)
    IN  Join([i \in 1..Len(names) |-> <<names[i]>>], " ") \o <<"\n">>

\* .toString().split(' ').map((pth) => pth.replace('\n', ''))
getNotStagedFiles(unstaged) ==
    LET parts == Split(EchoGitDiff(unstaged), " ")
    IN  [i \in 1..Len(parts) |-> Replace(parts[i], "\n", <<>>)]

\* notStagedFiles.filter((file) => !initialNotStagedFiles.includes(file))
changedFiles(notStagedFiles, initialNotStagedFiles) ==
    SelectSeq(notStagedFiles,
              LAMBDA file : \A i \in 1..Len(initialNotStagedFiles) :
                                initialNotStagedFiles[i] # file)

\* the argument of `git add ${rootDir}/${file}`
GitAddPath(file) == RootDir \o <<"/">> \o file

\* The hook starts: getNotStagedFiles() gives initialNotStagedFiles.
InitModified ==
    /\ InitNoExecutor
    /\ \E unstaged \in WorkFileSets :
        repo = [state |-> "hook",
                atStart |-> unstaged,
                unstaged |-> unstaged,
                initialNotStagedFiles |-> getNotStagedFiles(unstaged),
                behavior |-> "none",
                added |-> <<>>,
                exited |-> FALSE,
                exitCode |-> 0]

\* A step of the hook modifies a file of the work tree.
HookModifiesFile(file) ==
    /\ repo.state = "hook"
    /\ file \notin repo.unstaged
    /\ repo' = [repo EXCEPT !.unstaged = repo.unstaged \cup {file}]
    /\ UNCHANGED <<execVars, built>>

\* A step of the hook stages a modified file, or restores it.
HookCleansFile(file) ==
    /\ repo.state = "hook"
    /\ file \in repo.unstaged
    /\ repo' = [repo EXCEPT !.unstaged = repo.unstaged \ {file}]
    /\ UNCHANGED <<execVars, built>>

DetectAndProcessModifiedFiles(behavior) ==
    /\ repo.state = "hook"
    /\ LET changed == changedFiles(getNotStagedFiles(repo.unstaged),
                                   repo.initialNotStagedFiles)
       IN  repo' = [repo EXCEPT
               !.state = "processed",
               !.behavior = behavior,
               !.added = IF changed # <<>> /\ behavior = ADD_AND_COMMIT
                         THEN [i \in 1..Len(changed) |-> GitAddPath(changed[i])]
                         ELSE <<>>,
               !.exited = changed # <<>> /\ behavior = EXIT,
               !.exitCode = IF changed # <<>> /\ behavior = EXIT THEN 1 ELSE 0]
    /\ UNCHANGED <<execVars, built>>

NextModified ==
    \/ \E i \in 1..Len(WorkFiles) : HookModifiesFile(WorkFiles[i])
    \/ \E i \in 1..Len(WorkFiles) : HookCleansFile(WorkFiles[i])
    \/ \E behavior \in Behaviors : DetectAndProcessModifiedFiles(behavior)

SpecModified == InitModified /\ [][NextModified]_vars

(***************************************************************************)
(* Vocabulary of the claims.                                               *)
(***************************************************************************)
\* The statuses published by one run() call, in publish order.
StatusesOfCall(c) ==
    LET evs == SelectSeq(bus, LAMBDA ev : ev.call = c)
    IN  [i \in 1..Len(evs) |-> evs[i].status]

\* The statuses the bus carries for one executor, told by the event's payload.
StatusesOfExecutor(e) ==
    LET evs == SelectSeq(bus, LAMBDA ev : /\ ev.packageName = PackageName(e)
                                          /\ ev.stepName = StepName(e))
    IN  [i \in 1..Len(evs) |-> evs[i].status]

\* The run() calls made on one executor.
CallsOf(e) == {c \in 1..Len(calls) : calls[c].exec = e}

\* Whether the run() call reached exec(): a subprocess was launched (or its
\* launch attempted).
Launched(c) == calls[c].phase # "skipped"

\* Whether the promise the call returned is resolved.
Resolved(c) == calls[c].outcome # Pending

(***************************************************************************)
(* C1: every run() call publishes Running first and then at most one       *)
(* terminal status; no terminal status precedes Running, none follows the  *)
(* first terminal status, and the call has published exactly               *)
(* <<Running, terminal>> when, and only when, its promise is resolved.     *)
(***************************************************************************)
RunEventsWellFormed ==
    /\ \A i \in 1..Len(bus) : bus[i].call \in 1..Len(calls)
    /\ \A c \in 1..Len(calls) :
        LET s == StatusesOfCall(c)
        IN  /\ Len(s) \in {1, 2}
            /\ s[1] = RUNNING
            /\ Len(s) = 2 => s[2] \in Terminal
            /\ Resolved(c) <=> Len(s) = 2

\* A call that ended in Failure beside a call that ended in Success.
WitnessRunEvents ==
    \E c, d \in 1..Len(calls) :
        /\ StatusesOfCall(c) = <<RUNNING, FAILURE>>
        /\ StatusesOfCall(d) = <<RUNNING, SUCCESS>>

AtMostOneSubprocess ==
    \A e \in Executors : Cardinality({c \in CallsOf(e) : Launched(c)}) <= 1

(***************************************************************************)
(* C5: a run whose subprocess exited with code 0 has published exactly     *)
(* <<Running, Success>> and resolved with null, whatever the subprocess    *)
(* wrote to its output streams.                                            *)
(***************************************************************************)
ExitZeroIsSuccess ==
    \A c \in 1..Len(calls) :
        (calls[c].phase = "done" /\ calls[c].code = 0) =>
            /\ StatusesOfCall(c) = <<RUNNING, SUCCESS>>
            /\ calls[c].outcome = "null"

\* A subprocess wrote to its standard error and exited with code 0.
WitnessExitZero ==
    \E c \in 1..Len(calls) :
        /\ calls[c].phase = "done" /\ calls[c].code = 0
        /\ calls[c].wroteErr # <<>>

(***************************************************************************)
(* C6: a run whose subprocess wrote to standard error and exited with a    *)
(* non-zero code has published exactly <<Running, Failure>> and resolved   *)
(* with a message that contains every chunk the subprocess wrote to        *)
(* standard error, however the data and exit events were ordered.          *)
(***************************************************************************)
FailureMessageHasAllStderr ==
    \A c \in 1..Len(calls) :
        (calls[c].phase = "done" /\ calls[c].code # 0 /\ calls[c].wroteErr # <<>>) =>
            /\ StatusesOfCall(c) = <<RUNNING, FAILURE>>
            /\ calls[c].outcome = "failure"
            /\ SelectSeq(calls[c].msg, LAMBDA t : t \in ErrChunks) = calls[c].wroteErr

(***************************************************************************)
(* C7: when each of the two executors is run once, each executor's events  *)
(* on the bus are its Running and then at most one terminal status,        *)
(* exactly <<Running, terminal>> once its promise is resolved, however the *)
(* events of the two executors interleave.                                 *)
(***************************************************************************)
ConcurrentExecutorsOrdered ==
    (\A e \in Executors : Cardinality(CallsOf(e)) = 1) =>
        \A e \in Executors :
            LET s == StatusesOfExecutor(e)
                c == CHOOSE c \in CallsOf(e) : TRUE
            IN  /\ Len(s) \in {1, 2}
                /\ s[1] = RUNNING
                /\ Len(s) = 2 => s[2] \in Terminal
                /\ Resolved(c) <=> Len(s) = 2

\* The pair of the second executor lies inside the pair of the first.
WitnessConcurrentExecutors ==
    /\ Len(calls) = 2 /\ calls[1].exec # calls[2].exec
    /\ Len(bus) = 4
    /\ bus[1].call = 1 /\ bus[2].call = 2 /\ bus[3].call = 2 /\ bus[4].call = 1

(***************************************************************************)
(* C8: when the matcher rejects the step's onlyOn pattern, the constructor *)
(* raises: no instance exists (so none is skipped), no event is published  *)
(* for the executor and no subprocess is launched for it.                  *)
(***************************************************************************)
InvalidPatternRaises ==
    \A e \in Executors :
        /\ (inst[e].state # "none" /\ Truthy(inst[e].onlyOn) /\ ~ValidGlob(inst[e].onlyOn))
                => inst[e].state = "threw"
        /\ inst[e].state = "threw" =>
                /\ ~inst[e].skipped
                /\ CallsOf(e) = {}
                /\ StatusesOfExecutor(e) = <<>>

\* A constructor raised while the other executor was running.
WitnessInvalidPattern ==
    \E e \in Executors :
        /\ inst[e].state = "threw" /\ inst[e].onlyOn = "["
        /\ bus # <<>>

(***************************************************************************)
(* C9: the skipped flag of an instance never changes after construction,   *)
(* and every run() call launched a subprocess exactly when the flag is     *)
(* false, whatever the staged files were when run() was called.            *)
(***************************************************************************)
SkippedFlagKept ==
    \A e \in Executors :
        inst[e].state = "ok" => inst'[e].skipped = inst[e].skipped

RunFollowsFlag ==
    \A c \in 1..Len(calls) : Launched(c) <=> ~inst[calls[c].exec].skipped

SkipDecisionFixedAtConstruction ==
    [][SkippedFlagKept]_vars /\ []RunFollowsFlag

\* run() was called when isSkipped() would have returned the other value.
WitnessSkipDecisionFixed ==
    \E c \in 1..Len(calls) :
        /\ calls[c].wouldSkip # inst[calls[c].exec].skipped
        /\ stagedFiles # <<>>

(***************************************************************************)
(* C10: a run whose subprocess could not be started has published Failure  *)
(* and resolved with a {step, message} outcome.                            *)
(***************************************************************************)
LaunchFaultReportedAsFailure ==
    \A c \in 1..Len(calls) :
        calls[c].phase = "errored" =>
            /\ StatusesOfCall(c) = <<RUNNING, FAILURE>>
            /\ calls[c].outcome = "failure"

(***************************************************************************)
(* C11: the promise of run() is never rejected and run() never throws: a   *)
(* subprocess that exited with a non-zero code gives a promise resolved    *)
(* with {step, message}; the events and the outcome of a call follow from  *)
(* its own exit code, and the step in which one call fails leaves every    *)
(* other call and its events as they were.                                 *)
(***************************************************************************)
OutcomeFollowsOwnExit ==
    \A c \in 1..Len(calls) :
        /\ calls[c].outcome \in {Pending, "null", "failure"}
        /\ calls[c].phase = "done" =>
            /\ calls[c].outcome = IF calls[c].code = 0 THEN "null" ELSE "failure"
            /\ StatusesOfCall(c) =
                    <<RUNNING, IF calls[c].code = 0 THEN SUCCESS ELSE FAILURE>>

SiblingUntouchedByFailure ==
    \A c, d \in 1..Len(calls) :
        (c # d /\ calls[c].outcome = Pending /\ calls'[c].outcome # Pending) =>
            /\ calls'[d] = calls[d]
            /\ StatusesOfCall(d)' = StatusesOfCall(d)

FailedStepIsResolvedValue ==
    []OutcomeFollowsOwnExit /\ [][SiblingUntouchedByFailure]_vars

\* One executor failed, and its sibling, running at the time, succeeded later.
WitnessFailedStepResolved ==
    /\ Len(calls) = 2 /\ calls[1].exec # calls[2].exec
    /\ calls[1].outcome = "failure" /\ calls[2].outcome = "null"
    /\ Len(bus) = 4 /\ bus[3].status = FAILURE /\ bus[4].status = SUCCESS

SignalExitIsFailure ==
    \A c \in 1..Len(calls) :
        /\ (calls[c].phase = "done" /\ calls[c].code = NullCode) =>
            /\ StatusesOfCall(c) = <<RUNNING, FAILURE>>
            /\ calls[c].outcome = "failure"
        /\ (\E i \in 1..Len(bus) : bus[i].call = c /\ bus[i].status = SUCCESS) =>
            (calls[c].phase = "done" /\ calls[c].code = 0)

\* A subprocess was killed by a signal.
WitnessSignalExit ==
    \E c \in 1..Len(calls) : calls[c].phase = "done" /\ calls[c].code = NullCode

(***************************************************************************)
(* C15: the message of a failed run is a stderr buffer, the stdout marker  *)
(* and a stdout buffer; each buffer holds the chunks delivered so far on   *)
(* its own stream of its own subprocess, in arrival order, each after a    *)
(* newline.                                                                *)
(***************************************************************************)
RECURSIVE Lines(_)
Lines(chunks) ==
    IF chunks = <<>> THEN <<>> ELSE <<"\n", Head(chunks)>> \o Lines(Tail(chunks))

Prefixes(s) == {SubSeq(s, 1, n) : n \in 0..Len(s)}

MessageIsStderrThenStdout ==
    \A c \in 1..Len(calls) :
        LET r == calls[c]
        IN  /\ r.error = Lines(SubSeq(r.wroteErr, 1, Len(r.wroteErr) - Len(r.errPipe)))
            /\ r.out = Lines(SubSeq(r.wroteOut, 1, Len(r.wroteOut) - Len(r.outPipe)))
            /\ r.outcome = "failure" =>
                \E e \in Prefixes(r.wroteErr), o \in Prefixes(r.wroteOut) :
                    r.msg = Lines(e) \o StdoutMarker \o Lines(o)

\* A failed run whose message holds two stderr chunks, or one chunk of each
\* stream, while the other subprocess has output buffered too.
WitnessMessage ==
    \E c, d \in 1..Len(calls) :
        /\ c # d
        /\ calls[c].outcome = "failure" /\ Len(calls[c].msg) = 5
        /\ calls[d].error # <<>>

(***************************************************************************)
(* C16: the promise of a run that launched a subprocess is pending until   *)
(* the 'exit' event and resolved from then on, with a value that never     *)
(* changes; a subprocess that exits leads to a resolved promise, and one   *)
(* that never exits leaves it pending.                                     *)
(***************************************************************************)
PendingUntilExit ==
    \A c \in 1..Len(calls) :
        Launched(c) => (Resolved(c) <=> calls[c].phase = "done")

ResolvedOnce ==
    \A c \in 1..Len(calls) :
        Resolved(c) =>
            /\ calls'[c].outcome = calls[c].outcome
            /\ calls'[c].msg = calls[c].msg

PromiseSettlesOnExit ==
    /\ []PendingUntilExit
    /\ [][ResolvedOnce]_vars
    /\ \A c \in 1..Cardinality(Executors) :
        (c \in 1..Len(calls) /\ calls[c].phase = "running")
            ~> (c \in 1..Len(calls) /\ Resolved(c))

\* One promise is resolved while the other subprocess never started.
WitnessPromiseSettles ==
    \E c, d \in 1..Len(calls) :
        /\ calls[c].phase = "done" /\ Resolved(c)
        /\ calls[d].phase = "errored" /\ ~Resolved(d)

(***************************************************************************)
(* C12: the arguments are split on whitespace, empty tokens dropped, the   *)
(* tokens joined by single spaces, and the quoted result put in place of   *)
(* the first placeholder of the command, if there is one; every other      *)
(* part of the command is kept.                                            *)
(***************************************************************************)
ArgsSplitOnWhitespace ==
    built.state = "built" =>
        LET White(ch) == ch \in {" ", "\t"}
            RECURSIVE WordsOf(_)
            WordsOf(str) ==
                IF str = <<>> THEN <<>>
                ELSE IF White(Head(str)) THEN WordsOf(Tail(str))
                ELSE LET n == CHOOSE k \in 1..Len(str) :
                                  /\ \A j \in 1..k : ~White(str[j])
                                  /\ k = Len(str) \/ White(str[k + 1])
                     IN  <<SubSeq(str, 1, n)>>
                             \o WordsOf(SubSeq(str, n + 1, Len(str)))
            template == WithVenv(built.type, built.venvActivate, built.command)
            embedded == <<"\"">> \o Join(WordsOf(built.hookArguments), " ") \o <<"\"">>
        IN  IF \A i \in 1..Len(template) : template[i] # Placeholder
            THEN built.execute = template
            ELSE \E i \in 1..Len(template) :
                    /\ template[i] = Placeholder
                    /\ \A j \in 1..(i - 1) : template[j] # Placeholder
                    /\ built.execute = SubSeq(template, 1, i - 1) \o embedded
                                        \o SubSeq(template, i + 1, Len(template))

(***************************************************************************)
(* C13: the command is wrapped between the activation of the virtual       *)
(* environment and its deactivation exactly when the type is python and    *)
(* venvActivate is set; otherwise the command is used as it is.            *)
(***************************************************************************)
VenvWrapping ==
    built.state = "built" =>
        LET x == built.execute
            wrapped ==
                /\ Len(x) >= 4
                /\ SubSeq(x, 1, 3) = <<"source ", built.venvActivate, " && ">>
                /\ x[Len(x)] = " && deactivate"
            inner == Replace(built.command, Placeholder, QuotedArgs(built.hookArguments))
        IN  /\ wrapped <=> (built.type = "python" /\ Truthy(built.venvActivate))
            /\ IF wrapped
               THEN SubSeq(x, 4, Len(x) - 1) = inner
               ELSE x = inner

\* A python step with a virtual environment and arguments was built.
WitnessVenvWrapping ==
    /\ built.state = "built"
    /\ built.type = "python" /\ built.venvActivate = ".venv/bin/activate"
    /\ built.hookArguments # <<>>
    /\ Len(built.execute) > Len(built.command) + 4

(***************************************************************************)
(* C17: for a package of the call, writeGitIgnoreFiles creates .gitignore  *)
(* with the ignore line when the file does not exist, appends the line     *)
(* when the file holds it already, and leaves a file without the line as   *)
(* it is; the files of the other packages are not touched.                 *)
(***************************************************************************)
GitIgnoreWrittenAsCoded ==
    (repo.state = "gitignore" /\ repo.ncalls > 0) =>
        \A pkgPath \in Packages :
            LET old == repo.before[pkgPath]
                new == repo.files[pkgPath]
            IN  IF \A i \in 1..Len(repo.packagesPath) : repo.packagesPath[i] # pkgPath
                THEN new = old
                ELSE /\ old = Absent => new = <<IgnoreLine, "\n">>
                     /\ (old # Absent /\ Includes(old, IgnoreLine)) =>
                            new = old \o <<"\n", IgnoreLine, "\n">>
                     /\ (old # Absent /\ ~Includes(old, IgnoreLine)) => new = old

\* One call met a package whose file holds the line and one whose file lacks it.
WitnessGitIgnore ==
    /\ repo.state = "gitignore" /\ repo.ncalls > 0
    /\ Len(repo.packagesPath) = 2
    /\ repo.before["packages/api"] = <<IgnoreLine, "\n">>
    /\ Len(repo.files["packages/api"]) = 5
    /\ repo.before["packages/web"] = <<"node_modules", "\n">>
    /\ repo.files["packages/web"] = <<"node_modules", "\n">>

(***************************************************************************)
(* C19: after a call of writeGitHooksFiles every listed hook file exists   *)
(* and holds the current command, and a second call with the same hook     *)
(* types changes no hook file.                                             *)
(***************************************************************************)
HooksInstalled ==
    repo.state = "hooks" =>
        \A i \in 1..Len(repo.hookTypes) :
            LET type == repo.hookTypes[i]
            IN  /\ repo.files[type] # Absent
                /\ Includes(repo.files[type], mookmeCmd(type))

SecondCallChangesNothing ==
    (repo.state = "hooks" /\ repo.hookTypes # <<>> /\ repo'.hookTypes = repo.hookTypes)
        => repo'.files = repo.files

WriteGitHooksIdempotent == []HooksInstalled /\ [][SecondCallChangesNothing]_vars

(***************************************************************************)
(* C20: detectAndProcessModifiedFiles acts on the files that are unstaged  *)
(* now and were not unstaged when the hook started, and on nothing else:   *)
(* without such a file nothing is added and the process goes on; with      *)
(* ADD_AND_COMMIT exactly these files are added; with EXIT the process     *)
(* exits with code 1 and nothing is added.                                 *)
(***************************************************************************)
OnlyNewlyUnstagedFilesProcessed ==
    repo.state = "processed" =>
        LET new == repo.unstaged \ repo.atStart
            addedPaths == {repo.added[i] : i \in 1..Len(repo.added)}
        IN  /\ new = {} => (repo.added = <<>> /\ ~repo.exited)
            /\ repo.behavior = ADD_AND_COMMIT =>
                (addedPaths = {GitAddPath(<<f>>) : f \in new} /\ ~repo.exited)
            /\ (repo.behavior = EXIT /\ new # {}) =>
                (repo.exited /\ repo.exitCode = 1 /\ repo.added = <<>>)

====
